---- MODULE Spec2Model ----
(***************************************************************************)
(* Model of the k9s port-forward extender (internal/view/pf_extender.go)   *)
(* and of the table filter step (internal/ui/table.go, with the filter     *)
(* helpers of internal/ui).                                                *)
(*                                                                         *)
(* Spec      : the tunnel lifecycle. The UI thread runs portFwdCmd,        *)
(*             startFwdCB and the queued callbacks; every accepted start   *)
(*             spawns a runForward goroutine whose statements interleave   *)
(*             with the UI thread one by one.                              *)
(* SpecTable : the table controller's filter step on the UI thread.        *)
(* SpecFilter: Table.filtered applied once to a drawn query, toast flag    *)
(*             and snapshot.                                               *)
(* SpecRender: the render pass (doUpdate, buildRow) under the flag and     *)
(*             sort handlers.                                              *)
(* SpecMarks : the render pass while rows are marked and unmarked.         *)
(* SpecBuff  : a command buffer with one listener, as the CmdBuff tests    *)
(*             drive it.                                                   *)
(***************************************************************************)
EXTENDS Integers, Sequences, FiniteSets, TLC

VARIABLES
    dialog,     \* the port-forward dialog: shown flag, pod path, offered ports
    pods,       \* the cluster: pod path -> container -> declared ports
    registry,   \* factory.forwarders: identity -> tunnel (0: no entry)
    tun,        \* tunnel -> [path, co, port], set by pf.Start
    pc,         \* tunnel -> position of its runForward goroutine
    active,     \* tunnel -> the forwarder's active flag
    uiQueue,    \* callbacks handed to QueueUpdateDraw, not run yet
    bound,      \* local ports some process is listening on
    nTun,       \* number of goroutines spawned so far
    step,       \* the UI handler the last step ran: its inputs, what it flashed
    probeFailed,\* the identity whose latest start request failed on the probe
    evlog,      \* tunnel -> what it did to the registry and the UI, and where
    cmdBuff,    \* the table's filter buffer: its text and its active flag
    toast,      \* the table's toast flag
    snap,       \* the snapshot the table model holds (Peek)
    view,       \* the data handed to doUpdate by the last filter step
    title,      \* the table title: the row count and the query suffix
    typed,      \* the query the last filter step was given (history)
    wide,       \* the table's wide flag
    sortCol,    \* the table's sort column: its name and direction
    hasMetrics, \* the table's metrics flag
    cols,       \* the columns of the view setting (none: <<>>)
    grid,       \* the cells drawn: the header cells and each row's cells
    crashed,    \* an update has panicked
    cmd,        \* the sort handler or buffer operation the last step ran
    marks,      \* the table's mark set: the IDs of the marked rows
    listener    \* a buffer listener: the last text and the activations it got

tunnelVars == <<dialog, pods, registry, tun, pc, active, uiQueue,
                bound, nTun, step, probeFailed, evlog>>
tableVars == <<cmdBuff, toast, snap, view, title, typed,
               wide, sortCol, hasMetrics, cols, grid, crashed, cmd, marks,
               listener>>
vars == <<tunnelVars, tableVars>>

----------------------------------------------------------------------------
(* Bounds *)

MaxTunnels == 2
MaxBuff == 3
MaxQuery == 3
MaxNotify == 3

----------------------------------------------------------------------------
(* The cluster and the host as the extender sees them *)

Paths == {"ns/pod"}
Containers == {"web", "db"}
LocalPorts == {"8080"}
Tunnels == 1..MaxTunnels

TCP == "TCP"
UDP == "UDP"

\* v1.ContainerPort values a pod may declare
HttpPort == [name |-> "http", proto |-> TCP, port |-> 80]
DnsPort == [name |-> "dns", proto |-> UDP, port |-> 53]
SqlPort == [name |-> "sql", proto |-> TCP, port |-> 5432]

\* a pod's declared ports, container -> list of ports (fetchPodPorts' result)
PodSpecs ==
    { [web |-> <<DnsPort, HttpPort>>, db |-> <<SqlPort>>],
      [web |-> <<DnsPort>>, db |-> <<>>],
      [web |-> <<>>, db |-> <<DnsPort, DnsPort>>] }

\* dao.PortForwardID(path, co), pf.Path() and pf.FQN(): the tunnel identity
PortForwardID(path, co) == <<path, co>>

Idents == { PortForwardID(p, c) : p \in Paths, c \in Containers }
NoIdent == PortForwardID("", "")

NoDialog == [shown |-> FALSE, path |-> "", ports |-> {}]
NoTunnel == [path |-> "", co |-> "", port |-> ""]

FQN(t) == PortForwardID(tun[t].path, tun[t].co)

\* a run of a UI handler: its inputs, the goroutine it spawned (0: none),
\* the message it handed to App().Flash() ("": none), and whether it is a
\* start request that follows a failed probe of the same identity
Step(op, path, co, port, ok, t, msg) ==
    [op |-> op, path |-> path, co |-> co, port |-> port, ok |-> ok, t |-> t,
     flash |-> msg,
     retry |-> op = "startFwdCB" /\ probeFailed = <<path, co>>]

\* a step of a goroutine, of a queued callback or of the host
NoStep ==
    [op |-> "", path |-> "", co |-> "", port |-> "", ok |-> TRUE, t |-> 0,
     flash |-> "", retry |-> FALSE]

----------------------------------------------------------------------------
(* factory: the forwarder registry *)

ForwarderFor(id) == registry[id] # 0

AddForwarder(t) == [registry EXCEPT ![FQN(t)] = t]

DeleteForwarder(id) == [registry EXCEPT ![id] = 0]

\* App().QueueUpdateDraw(f): f joins the single serialized update queue
QueueUpdateDraw(cb) == Append(uiQueue, cb)

Logged(t, op, ctx) == [evlog EXCEPT ![t] = Append(@, [op |-> op, ctx |-> ctx])]

----------------------------------------------------------------------------
(* tryListenPort: bind the address and port, then release it *)

tryListenPort(port) == port \notin bound

----------------------------------------------------------------------------
(* showFwdDialog: the ports offered by the dialog *)

\* containerPorts without the protocol test: every declared port is offered
RECURSIVE containerPortsAnyProto(_, _)
containerPortsAnyProto(co, pp) ==
    IF pp = <<>> THEN {}
    ELSE {[co |-> co, name |-> Head(pp).name, port |-> Head(pp).port]}
             \cup containerPortsAnyProto(co, Tail(pp))

\* the inner loop over one container's ports: non-TCP ports are skipped, a
\* TCP port is offered as FQN(co, p.Name) + ":" + ContainerPort
RECURSIVE containerPorts(_, _)
containerPorts(co, pp) ==
    IF pp = <<>> THEN {}
    ELSE LET p == Head(pp)
         IN  IF p.proto # TCP
             THEN containerPorts(co, Tail(pp))
             ELSE {[co |-> co, name |-> p.name, port |-> p.port]}
                      \cup containerPorts(co, Tail(pp))

\* the outer loop over the containers of the pod
dialogPorts(mm) == UNION { containerPorts(co, mm[co]) : co \in DOMAIN mm }

\* the key binding of portFwdCmd is served by the table: it has the focus
\* only while the modal dialog is not shown
TableHasFocus == ~dialog.shown

\* fetchOk: whether fetchPodPorts got the pod from the factory; the result
\* is the error returned to portFwdCmd ("": nil)
showFwdDialogErr(path, fetchOk) ==
    IF ~fetchOk THEN ""
    ELSE IF dialogPorts(pods[path]) = {} THEN "no tcp ports found"
    ELSE ""

showFwdDialog(path, fetchOk) ==
    IF fetchOk /\ dialogPorts(pods[path]) # {}
    THEN \* ShowPortForwards(v, path, ports, cb)
         dialog' = [shown |-> TRUE, path |-> path, ports |-> dialogPorts(pods[path])]
    ELSE UNCHANGED dialog

\* sel: the selected item; podOk: whether fetchPodName found the pod
portFwdCmd(sel, podOk, fetchOk) ==
    /\ TableHasFocus
    /\ IF sel = ""
       THEN /\ step' = Step("portFwdCmd", sel, "", "", podOk /\ fetchOk, 0, "")
            /\ UNCHANGED dialog
       ELSE IF ~podOk
       THEN /\ step' = Step("portFwdCmd", sel, "", "", FALSE, 0, "pod error")
            /\ UNCHANGED dialog
       ELSE /\ showFwdDialog(sel, fetchOk)
            /\ step' = Step("portFwdCmd", sel, "", "", fetchOk, 0,
                            showFwdDialogErr(sel, fetchOk))
    /\ UNCHANGED <<pods, registry, tun, pc, active, uiQueue, bound, nTun, evlog, probeFailed>>
    /\ UNCHANGED tableVars

\* DismissPortForwards removes the dialog page
DismissPortForwards == NoDialog

\* the dialog's cancel button
cancelDialog ==
    /\ dialog.shown
    /\ dialog' = DismissPortForwards
    /\ step' = NoStep
    /\ UNCHANGED <<pods, registry, tun, pc, active, uiQueue, bound,
                   nTun, evlog, probeFailed>>
    /\ UNCHANGED tableVars

----------------------------------------------------------------------------
(* startFwdCB: the dialog's OK callback, on the UI thread *)

\* the start request of an identity ended: probeFailed names the identity
\* when the request failed on the probe, and forgets it otherwise
ProbeNoted(id, failed) ==
    IF failed THEN id
    ELSE IF probeFailed = id THEN NoIdent
    ELSE probeFailed

\* go runForward(v, pf, fwd), as a step of startFwdCB
Spawned(path, co, port, startOk) ==
    /\ nTun < MaxTunnels
    /\ nTun' = nTun + 1
    /\ tun' = [tun EXCEPT ![nTun + 1] = [path |-> path, co |-> co, port |-> port]]
    /\ pc' = [pc EXCEPT ![nTun + 1] = "add"]
    /\ step' = Step("startFwdCB", path, co, port, startOk, nTun + 1, "")

Rejected(path, co, port, startOk, msg) ==
    /\ step' = Step("startFwdCB", path, co, port, startOk, 0, msg)
    /\ UNCHANGED <<tun, pc, nTun>>

\* startFwdCB without the duplicate check of lines 110-113
startFwdCBNoDupCheck(path, co, port, startOk) ==
    /\ IF ~tryListenPort(port)
       THEN Rejected(path, co, port, startOk, "port unavailable")
       ELSE IF ~startOk
       THEN Rejected(path, co, port, startOk, "start error")
       ELSE Spawned(path, co, port, startOk)
    /\ probeFailed' = ProbeNoted(PortForwardID(path, co), ~tryListenPort(port))
    /\ UNCHANGED <<dialog, pods, registry, active, uiQueue, bound, evlog>>
    /\ UNCHANGED tableVars

\* startFwdCB with the duplicate check made before the probe
startFwdCBDupCheckFirst(path, co, port, startOk) ==
    /\ IF ForwarderFor(PortForwardID(path, co))
       THEN Rejected(path, co, port, startOk, "already active")
       ELSE IF ~tryListenPort(port)
       THEN Rejected(path, co, port, startOk, "port unavailable")
       ELSE IF ~startOk
       THEN Rejected(path, co, port, startOk, "start error")
       ELSE Spawned(path, co, port, startOk)
    /\ probeFailed' = ProbeNoted(PortForwardID(path, co),
                                 ~ForwarderFor(PortForwardID(path, co))
                                     /\ ~tryListenPort(port))
    /\ UNCHANGED <<dialog, pods, registry, active, uiQueue, bound, evlog>>
    /\ UNCHANGED tableVars

\* startFwdCB with the test of pf.Start's error inverted
startFwdCBStartErrInverted(path, co, port, startOk) ==
    /\ IF ~tryListenPort(port)
       THEN Rejected(path, co, port, startOk, "port unavailable")
       ELSE IF ForwarderFor(PortForwardID(path, co))
       THEN Rejected(path, co, port, startOk, "already active")
       ELSE IF startOk
       THEN Rejected(path, co, port, startOk, "start error")
       ELSE Spawned(path, co, port, startOk)
    /\ probeFailed' = ProbeNoted(PortForwardID(path, co), ~tryListenPort(port))
    /\ UNCHANGED <<dialog, pods, registry, active, uiQueue, bound, evlog>>
    /\ UNCHANGED tableVars

\* startOk: whether pf.Start returned a forwarder
startFwdCB(path, co, port, startOk) ==
    /\ IF ~tryListenPort(port)
       THEN Rejected(path, co, port, startOk, "port unavailable")
       ELSE IF ForwarderFor(PortForwardID(path, co))
       THEN Rejected(path, co, port, startOk, "already active")
       ELSE IF ~startOk
       THEN Rejected(path, co, port, startOk, "start error")
       ELSE Spawned(path, co, port, startOk)
    /\ probeFailed' = ProbeNoted(PortForwardID(path, co), ~tryListenPort(port))
    /\ UNCHANGED <<dialog, pods, registry, active, uiQueue, bound, evlog>>
    /\ UNCHANGED tableVars

\* the OK button of the dialog: the container is one of those offered, the
\* local port is typed by the user, pf.Start may fail
dialogOk ==
    /\ dialog.shown
    /\ \E e \in dialog.ports, port \in LocalPorts, startOk \in BOOLEAN :
           startFwdCB(dialog.path, e.co, port, startOk)

----------------------------------------------------------------------------
(* runForward: the goroutine of one tunnel, statement by statement *)

\* line 84: v.App().factory.AddForwarder(pf)
rfAddForwarder(t) ==
    /\ pc[t] = "add"
    /\ registry' = AddForwarder(t)
    /\ evlog' = Logged(t, "add", "task")
    /\ pc' = [pc EXCEPT ![t] = "notify"]
    /\ step' = NoStep
    /\ UNCHANGED <<dialog, pods, tun, active, uiQueue, bound, nTun, probeFailed>>
    /\ UNCHANGED tableVars

\* lines 86-89: the "activated" callback is queued
rfQueueActivated(t) ==
    /\ pc[t] = "notify"
    /\ uiQueue' = QueueUpdateDraw([kind |-> "activated", t |-> t])
    /\ pc' = [pc EXCEPT ![t] = "setactive"]
    /\ step' = NoStep
    /\ UNCHANGED <<dialog, pods, registry, tun, active, bound, nTun, evlog, probeFailed>>
    /\ UNCHANGED tableVars

\* line 91: pf.SetActive(true); the goroutine then blocks in f.ForwardPorts()
rfSetActive(t) ==
    /\ pc[t] = "setactive"
    /\ active' = [active EXCEPT ![t] = TRUE]
    /\ pc' = [pc EXCEPT ![t] = "forward"]
    /\ step' = NoStep
    /\ UNCHANGED <<dialog, pods, registry, tun, uiQueue, bound, nTun, evlog, probeFailed>>
    /\ UNCHANGED tableVars

\* lines 92-95: f.ForwardPorts() returns an error: it is flashed from the
\* goroutine, which returns
rfForwardFails(t) ==
    /\ pc[t] = "forward"
    /\ evlog' = Logged(t, "failed", "task")
    /\ pc' = [pc EXCEPT ![t] = "failed"]
    /\ step' = NoStep
    /\ UNCHANGED <<dialog, pods, registry, tun, active, uiQueue, bound, nTun, probeFailed>>
    /\ UNCHANGED tableVars

\* lines 92, 97-101: f.ForwardPorts() returns nil: the "delete" callback is
\* queued and the goroutine returns
rfForwardEnds(t) ==
    /\ pc[t] = "forward"
    /\ uiQueue' = QueueUpdateDraw([kind |-> "delete", t |-> t])
    /\ pc' = [pc EXCEPT ![t] = "returned"]
    /\ step' = NoStep
    /\ UNCHANGED <<dialog, pods, registry, tun, active, bound, nTun, evlog, probeFailed>>
    /\ UNCHANGED tableVars

----------------------------------------------------------------------------
(* The UI thread runs the queued callbacks in order *)

\* lines 87-88: Flash().Infof("PortForward activated ..."), DismissPortForwards
cbActivated(t) ==
    /\ dialog' = DismissPortForwards
    /\ evlog' = Logged(t, "activated", "ui")
    /\ step' = NoStep
    /\ UNCHANGED <<registry, active>>

\* lines 98-99: DeleteForwarder(pf.FQN()), pf.SetActive(false)
cbDelete(t) ==
    /\ registry' = DeleteForwarder(FQN(t))
    /\ active' = [active EXCEPT ![t] = FALSE]
    /\ evlog' = Logged(t, "delete", "ui")
    /\ step' = NoStep
    /\ UNCHANGED dialog

uiRunCallback ==
    /\ uiQueue # <<>>
    /\ uiQueue' = Tail(uiQueue)
    /\ IF Head(uiQueue).kind = "activated"
       THEN cbActivated(Head(uiQueue).t)
       ELSE cbDelete(Head(uiQueue).t)
    /\ UNCHANGED <<pods, tun, pc, bound, nTun, probeFailed>>
    /\ UNCHANGED tableVars

----------------------------------------------------------------------------
(* Other processes of the host take and release local ports *)

hostListen(port) ==
    /\ port \notin bound
    /\ bound' = bound \cup {port}
    /\ step' = NoStep
    /\ UNCHANGED <<dialog, pods, registry, tun, pc, active, uiQueue,
                   nTun, evlog, probeFailed>>
    /\ UNCHANGED tableVars

hostClose(port) ==
    /\ port \in bound
    /\ bound' = bound \ {port}
    /\ step' = NoStep
    /\ UNCHANGED <<dialog, pods, registry, tun, pc, active, uiQueue,
                   nTun, evlog, probeFailed>>
    /\ UNCHANGED tableVars

----------------------------------------------------------------------------

(* Strings are sequences of one-character strings *)

UpperCase == {"A", "B", "G"}
LowerCase == {"a", "b", "d", "e", "f", "g", "h", "l", "m", "p", "t", "z"}
Separators == {"/", "-", "_", " ", ".", "\\"}

Lower(c) ==
    CASE c = "A" -> "a"
      [] c = "B" -> "b"
      [] c = "G" -> "g"
      [] OTHER -> c

LowerStr(s) == [i \in DOMAIN s |-> Lower(s[i])]

\* strings.Join(fields, " ")
RECURSIVE Join(_)
Join(fields) ==
    IF fields = <<>> THEN <<>>
    ELSE IF Len(fields) = 1 THEN Head(fields)
    ELSE Head(fields) \o <<" ">> \o Join(Tail(fields))

Contains(s, sub) ==
    \E i \in 0..(Len(s) - Len(sub)) : SubSeq(s, i + 1, i + Len(sub)) = sub

HasPrefix(s, pre) == Len(s) >= Len(pre) /\ SubSeq(s, 1, Len(pre)) = pre

\* s[n:]
From(s, n) == SubSeq(s, n + 1, Len(s))

----------------------------------------------------------------------------
(* CmdBuff, as its tests use it *)

NoBuff == [buff |-> <<>>, active |-> FALSE]

CmdBuffAdd(b, r) == [b EXCEPT !.buff = Append(@, r)]
CmdBuffClear(b) == [b EXCEPT !.buff = <<>>]
CmdBuffSetActive(b, on) == [b EXCEPT !.active = on]
CmdBuffEmpty(b) == b.buff = <<>>
CmdBuffString(b) == b.buff

\* Delete that drops the first rune
CmdBuffDeleteFirst(b) ==
    IF CmdBuffEmpty(b) THEN b ELSE [b EXCEPT !.buff = SubSeq(@, 2, Len(@))]

CmdBuffDelete(b) ==
    IF CmdBuffEmpty(b) THEN b ELSE [b EXCEPT !.buff = SubSeq(@, 1, Len(@) - 1)]
CmdBuffReset(b) == CmdBuffSetActive(CmdBuffClear(b), FALSE)

\* testListener: BufferChanged keeps the text, BufferActive counts
NoListener == [text |-> <<>>, act |-> 0, inact |-> 0]
BufferChanged(l, text) == [l EXCEPT !.text = text]
BufferActive(l, on) ==
    IF on THEN [l EXCEPT !.act = @ + 1] ELSE [l EXCEPT !.inact = @ + 1]
Notified(l) == l.act + l.inact

BuffOp(op, r) == [op |-> op, name |-> r, asc |-> TRUE]

----------------------------------------------------------------------------
(* The filter helpers of internal/ui *)

\* LableRx and fuzzyRx: \A\-l and \A\-f
IsLabelSelector(q) == q # <<>> /\ HasPrefix(q, <<"-", "l">>)
IsFuzzySelector(q) == q # <<>> /\ HasPrefix(q, <<"-", "f">>)

\* strings.TrimSpace(s[2:])
RECURSIVE TrimLeft(_)
TrimLeft(s) == IF s # <<>> /\ Head(s) = " " THEN TrimLeft(Tail(s)) ELSE s
RECURSIVE TrimRight(_)
TrimRight(s) ==
    IF s # <<>> /\ s[Len(s)] = " " THEN TrimRight(SubSeq(s, 1, Len(s) - 1)) ELSE s
TrimLabelSelector(q) == TrimRight(TrimLeft(From(q, 2)))

\* Header.IndexOf(name, true): the column's index from 0, -1 when absent
RECURSIVE IndexFrom(_, _, _)
IndexFrom(h, name, i) ==
    IF i > Len(h) THEN -1
    ELSE IF h[i] = name THEN i - 1
    ELSE IndexFrom(h, name, i + 1)
IndexOf(h, name) == IndexFrom(h, name, 1)

KeepRows(data, rows) == [header |-> data.header, rows |-> rows, ns |-> data.ns]

\* the loop of filterToast: the rows whose VALID field is not empty
RECURSIVE toastRows(_, _)
toastRows(rows, validX) ==
    IF rows = <<>> THEN <<>>
    ELSE IF Head(rows).fields[validX + 1] # <<>>
    THEN <<Head(rows)>> \o toastRows(Tail(rows), validX)
    ELSE toastRows(Tail(rows), validX)

filterToast(data) ==
    IF IndexOf(data.header, "VALID") = -1 THEN data
    ELSE KeepRows(data, toastRows(data.rows, IndexOf(data.header, "VALID")))

\* regexp.Compile("(?i)" + q) for a query made of letters, "-" and
\* parentheses: it fails on an unbalanced parenthesis
RECURSIVE Balanced(_, _)
Balanced(q, depth) ==
    IF q = <<>> THEN depth = 0
    ELSE IF Head(q) = "(" THEN Balanced(Tail(q), depth + 1)
    ELSE IF Head(q) = ")" THEN depth > 0 /\ Balanced(Tail(q), depth - 1)
    ELSE Balanced(Tail(q), depth)

rxCompile(q) == Balanced(q, 0)

\* the expression matches what its characters outside parentheses spell,
\* anywhere in the string, whatever the case
RxLiteral(q) == SelectSeq(q, LAMBDA c : c \notin {"(", ")"})
rxMatchString(q, str) == Contains(LowerStr(str), LowerStr(RxLiteral(q)))

\* the loop of rxFilter leaving out the first row that matches
RECURSIVE rxRowsDropFirst(_, _)
rxRowsDropFirst(q, rows) ==
    IF rows = <<>> THEN <<>>
    ELSE IF rxMatchString(q, Join(Head(rows).fields))
    THEN SelectSeq(Tail(rows), LAMBDA r : rxMatchString(q, Join(r.fields)))
    ELSE rxRowsDropFirst(q, Tail(rows))

\* the loop of rxFilter matching the first field only
RECURSIVE rxRowsFirstField(_, _)
rxRowsFirstField(q, rows) ==
    IF rows = <<>> THEN <<>>
    ELSE IF rxMatchString(q, Head(rows).fields[1])
    THEN <<Head(rows)>> \o rxRowsFirstField(q, Tail(rows))
    ELSE rxRowsFirstField(q, Tail(rows))

RECURSIVE rxRows(_, _)
rxRows(q, rows) ==
    IF rows = <<>> THEN <<>>
    ELSE IF rxMatchString(q, Join(Head(rows).fields))
    THEN <<Head(rows)>> \o rxRows(q, Tail(rows))
    ELSE rxRows(q, Tail(rows))

\* rxFilter: the data as given and an error, or the matching rows
rxFilter(q, data) ==
    IF ~rxCompile(q) THEN [data |-> data, err |-> TRUE]
    ELSE [data |-> KeepRows(data, rxRows(q, data.rows)), err |-> FALSE]

----------------------------------------------------------------------------
(* fuzzy.Find of github.com/sahilm/fuzzy, as fuzzyFilter calls it *)

FoldEq(a, b) == Lower(a) = Lower(b)
Max(a, b) == IF a >= b THEN a ELSE b

\* one pass over the candidate string; j is the index from 0 of the
\* character looked at, st the loop's variables
RECURSIVE fuzzyScan(_, _, _, _)
fuzzyScan(p, str, j, st) ==
    IF j >= Len(str) THEN st
    ELSE
    LET cand == str[j + 1]
        last == IF j = 0 THEN "" ELSE str[j]
        lastIndex == IF j = 0 THEN 0 ELSE j - 1
        hit == FoldEq(cand, p[st.pi + 1])
        bonus == IF hit /\ st.matched # <<>>
                    /\ st.matched[Len(st.matched)] = lastIndex
                 THEN st.adj * 2 + 5 ELSE 0
        score == (IF j = 0 THEN 10 ELSE 0)
                   + (IF last \in LowerCase /\ cand \in UpperCase THEN 20 ELSE 0)
                   + (IF j # 0 /\ last \in Separators THEN 20 ELSE 0)
                   + bonus
        better == hit /\ score > st.best
        best == IF better THEN score ELSE st.best
        mi == IF better THEN j ELSE st.mi
        adj == st.adj + bonus
        atEnd == j + 1 >= Len(str)
        nextUp == st.pi + 1 < Len(p) /\ ~atEnd /\ FoldEq(p[st.pi + 2], str[j + 2])
        apply == (nextUp \/ atEnd) /\ mi > -1
        applied == IF st.matched = <<>> THEN best + Max(mi * (-5), -15) ELSE best
    IN  fuzzyScan(p, str, j + 1,
            IF apply
            THEN [pi |-> st.pi + 1, best |-> -1, mi |-> mi, adj |-> adj,
                  matched |-> Append(st.matched, mi), score |-> st.score + applied]
            ELSE [pi |-> st.pi, best |-> best, mi |-> mi, adj |-> adj,
                  matched |-> st.matched, score |-> st.score])

\* the match of one string: whether every character of the pattern was
\* found, and the score
fuzzyMatch(p, str) ==
    LET st == fuzzyScan(p, str, 0,
                  [pi |-> 0, best |-> -1, mi |-> -1, adj |-> 0,
                   matched |-> <<>>, score |-> 0])
    IN  [ok |-> Len(st.matched) = Len(p),
         score |-> st.score + Len(st.matched) - Len(str)]

\* sort.Stable on a few matches is an insertion sort; Matches.Less is
\* a.Score >= b.Score
RECURSIVE insertMatch(_, _)
insertMatch(sorted, m) ==
    IF sorted # <<>> /\ m.score >= sorted[Len(sorted)].score
    THEN Append(insertMatch(SubSeq(sorted, 1, Len(sorted) - 1), m),
                sorted[Len(sorted)])
    ELSE Append(sorted, m)

RECURSIVE sortMatches(_, _)
sortMatches(sorted, rest) ==
    IF rest = <<>> THEN sorted
    ELSE sortMatches(insertMatch(sorted, Head(rest)), Tail(rest))

\* the matches of the pattern among ss, best score first; an empty pattern
\* matches nothing
fuzzyFind(p, ss) ==
    IF p = <<>> THEN <<>>
    ELSE sortMatches(<<>>,
            SelectSeq([i \in DOMAIN ss |->
                          [index |-> i, ok |-> fuzzyMatch(p, ss[i]).ok,
                           score |-> fuzzyMatch(p, ss[i]).score]],
                      LAMBDA m : m.ok))

\* fuzzyFilter that drops the blanks in front of the pattern
fuzzyFilterTrimmed(q, index, data) ==
    LET ss == [i \in DOMAIN data.rows |-> data.rows[i].fields[index + 1]]
        mm == fuzzyFind(TrimLeft(q), ss)
    IN  KeepRows(data, [k \in DOMAIN mm |-> data.rows[mm[k].index]])

\* index: the column matched against, from 0
fuzzyFilter(q, index, data) ==
    LET ss == [i \in DOMAIN data.rows |-> data.rows[i].fields[index + 1]]
        mm == fuzzyFind(q, ss)
    IN  KeepRows(data, [k \in DOMAIN mm |-> data.rows[mm[k].index]])

----------------------------------------------------------------------------
(* Table: the filter step and what follows it *)

\* client.IsClusterScoped, client.IsAllNamespaces of the model's namespace
ClusterScope == "-"
AllNamespaces == "all"
IsClusterScoped(ns) == ns = ClusterScope
ClusterWide(ns) == ns = AllNamespaces

NameColIndex(ns) ==
    IF IsClusterScoped(ns) THEN 0
    ELSE IF ClusterWide(ns) THEN 1
    ELSE 0

\* Table.filtered that leaves the buffer alone when the expression is bad
filteredKeepsBuffer(buff, toasted, data) ==
    LET f == IF toasted THEN filterToast(data) ELSE data
        q == buff.buff
    IN  IF CmdBuffEmpty(buff) \/ IsLabelSelector(q)
        THEN [data |-> f, buff |-> buff]
        ELSE IF IsFuzzySelector(q)
        THEN [data |-> fuzzyFilter(From(q, 2), NameColIndex(data.ns), f), buff |-> buff]
        ELSE [data |-> rxFilter(q, f).data, buff |-> buff]

\* Table.filtered that applies the toast filter under an empty query only
filteredToastAlone(buff, toasted, data) ==
    LET q == buff.buff
    IN  IF CmdBuffEmpty(buff) \/ IsLabelSelector(q)
        THEN [data |-> IF toasted THEN filterToast(data) ELSE data, buff |-> buff]
        ELSE IF IsFuzzySelector(q)
        THEN [data |-> fuzzyFilter(From(q, 2), NameColIndex(data.ns), data), buff |-> buff]
        ELSE [data |-> rxFilter(q, data).data,
              buff |-> IF rxFilter(q, data).err THEN CmdBuffClear(buff) ELSE buff]

\* Table.filtered: the data to show, and the buffer as it leaves it
filtered(buff, toasted, data) ==
    LET f == IF toasted THEN filterToast(data) ELSE data
        q == buff.buff
    IN  IF CmdBuffEmpty(buff) \/ IsLabelSelector(q)
        THEN [data |-> f, buff |-> buff]
        ELSE IF IsFuzzySelector(q)
        THEN [data |-> fuzzyFilter(From(q, 2), NameColIndex(data.ns), f), buff |-> buff]
        ELSE [data |-> rxFilter(q, f).data,
              buff |-> IF rxFilter(q, f).err THEN CmdBuffClear(buff) ELSE buff]

\* styleTitle: the row count and, when the buffer is not empty, the query
styleTitle(rows, buff) ==
    [count |-> Len(rows),
     query |-> IF IsLabelSelector(buff.buff) THEN TrimLabelSelector(buff.buff)
               ELSE buff.buff]

RowIDs(rows) == [i \in DOMAIN rows |-> rows[i].id]

----------------------------------------------------------------------------
(* The render pass: customize, sort, header cells and row cells *)

\* the header columns marked wide-only, and those marked metrics-only
WideCols == {"VALID"}
MXCols == {"CPU"}

\* Header.Columns(wide): the names of the columns the wide flag lets through
Columns(h, wd) == SelectSeq(h, LAMBDA name : wd \/ name \notin WideCols)

\* TableData.Customize: the listed columns that the header has, in the
\* listed order, and each row's fields at those columns (empty where the
\* row has no such field)
Customize(data, cs, wd) ==
    LET hh == SelectSeq(cs, LAMBDA name : IndexOf(data.header, name) # -1)
    IN  [header |-> hh,
         ns |-> data.ns,
         rows |-> [i \in DOMAIN data.rows |->
                     [id |-> data.rows[i].id,
                      fields |-> [k \in DOMAIN hh |->
                          IF IndexOf(data.header, hh[k]) + 1 <= Len(data.rows[i].fields)
                          THEN data.rows[i].fields[IndexOf(data.header, hh[k]) + 1]
                          ELSE <<>>]]]]

\* the order of the characters
CharOrder ==
    <<" ", "(", ")", "-", "2", "5", "A", "B", "G",
      "a", "b", "d", "e", "f", "g", "h", "l", "m", "p", "t", "z">>
Rank(c) == CHOOSE i \in DOMAIN CharOrder : CharOrder[i] = c

RECURSIVE LessStr(_, _)
LessStr(a, b) ==
    IF b = <<>> THEN FALSE
    ELSE IF a = <<>> THEN TRUE
    ELSE IF Head(a) = Head(b) THEN LessStr(Tail(a), Tail(b))
    ELSE Rank(Head(a)) < Rank(Head(b))

\* the time elapsed that an age field stands for, in minutes
Elapsed(field) ==
    CASE field = <<"5", "m">> -> 5
      [] field = <<"2", "h">> -> 120
      [] OTHER -> 0

\* a comes before b under the sort: by elapsed time for an age column,
\* by text otherwise
SortsBefore(a, b, isAge, asc) ==
    LET less == IF isAge THEN Elapsed(a) < Elapsed(b) ELSE LessStr(a, b)
        more == IF isAge THEN Elapsed(b) < Elapsed(a) ELSE LessStr(b, a)
    IN  IF asc THEN less ELSE more

RECURSIVE insertRow(_, _, _, _, _)
insertRow(sorted, r, x, isAge, asc) ==
    IF sorted # <<>>
         /\ SortsBefore(r.fields[x], sorted[Len(sorted)].fields[x], isAge, asc)
    THEN Append(insertRow(SubSeq(sorted, 1, Len(sorted) - 1), r, x, isAge, asc),
                sorted[Len(sorted)])
    ELSE Append(sorted, r)

RECURSIVE sortRows(_, _, _, _, _)
sortRows(sorted, rest, x, isAge, asc) ==
    IF rest = <<>> THEN sorted
    ELSE sortRows(insertRow(sorted, Head(rest), x, isAge, asc), Tail(rest),
                  x, isAge, asc)

\* RowEvents.Sort(ns, sortCol, isAge, asc): a stable sort on the column of
\* index sortCol from 0; no sort when the column is -1
Sort(rows, sortColX, isAge, asc) ==
    IF sortColX = -1 THEN rows
    ELSE sortRows(<<>>, rows, sortColX + 1, isAge, asc)

\* doUpdate: the sort column falls back on the first customized column
sortColFor(sc, custHeader) ==
    IF (sc.name = "" \/ IndexOf(custHeader, sc.name) = -1) /\ Len(custHeader) > 0
    THEN [sc EXCEPT !.name = custHeader[1]]
    ELSE sc

\* the column is left out of the header cells and of the row cells
Skipped(name, ns, metrics) ==
    \/ name = "NAMESPACE" /\ ~ClusterWide(ns)
    \/ name \in MXCols /\ ~metrics

\* AddHeaderCell: the column's name and, on the sort column, the direction
headerCell(name, sc) ==
    [name |-> name,
     sort |-> IF name = sc.name THEN (IF sc.asc THEN "asc" ELSE "desc") ELSE ""]

\* cell colours: the colorer's two results and the style's mark colour
StdColor == "std"
ErrColor == "err"
MarkColor == "mark"

\* render.Happy: the row has no VALID column or nothing in it
Happy(h, row) ==
    \/ IndexOf(h, "VALID") = -1
    \/ Len(row.fields) <= IndexOf(h, "VALID")
    \/ row.fields[IndexOf(h, "VALID") + 1] = <<>>

\* Chart.ColorerFunc
ColorerFunc(ns, h, re) == IF ~Happy(h, re) THEN ErrColor ELSE StdColor

\* the text colour buildRow gives a cell that ignores the colorer's error
cellColorMarkFirst(marked, fgColor) ==
    IF marked THEN MarkColor ELSE fgColor

\* the text colour buildRow gives a cell
cellColor(marked, fgColor) ==
    IF marked /\ fgColor # ErrColor THEN MarkColor ELSE fgColor

\* buildRow: a cell for each field that has a header column and is not
\* skipped; the first cell carries the row ID
RECURSIVE rowCells(_, _, _, _, _, _)
rowCells(fields, c, h, ns, metrics, color) ==
    IF c > Len(fields) THEN <<>>
    ELSE IF c > Len(h) THEN rowCells(fields, c + 1, h, ns, metrics, color)
    ELSE IF Skipped(h[c], ns, metrics)
         THEN rowCells(fields, c + 1, h, ns, metrics, color)
    ELSE <<[col |-> h[c], text |-> fields[c], color |-> color]>>
             \o rowCells(fields, c + 1, h, ns, metrics, color)

\* buildRow that draws a cell for every column of the customized header
buildRowAll(re, ore, th, h, ns, metrics, mk) ==
    [ref |-> IF re.fields = <<>> \/ h = <<>> THEN "" ELSE re.id,
     cells |-> [c \in 1..(IF Len(re.fields) < Len(h) THEN Len(re.fields) ELSE Len(h)) |->
                  [col |-> h[c], text |-> re.fields[c],
                   color |-> cellColor(re.id \in mk, ColorerFunc(ns, th, ore))]]]

\* buildRow(r, re, ore, h, pads) on a table with header th and mark set mk
buildRow(re, ore, th, h, ns, metrics, mk) ==
    LET cells == rowCells(re.fields, 1, h, ns, metrics,
                          cellColor(re.id \in mk, ColorerFunc(ns, th, ore)))
    IN  [ref |-> IF cells = <<>> THEN "" ELSE re.id,
         cells |-> cells]

NoGrid == [header |-> <<>>, rows |-> <<>>]

\* RowEvents.FindIndex(id)
FindIndex(rows, id) == CHOOSE i \in DOMAIN rows : rows[i].id = id

\* doUpdate(data): the sort column it settles on and the cells it draws
doUpdate(data, cs, wd, sc, metrics, mk) ==
    LET custData == Customize(data, IF cs # <<>> THEN cs ELSE Columns(data.header, wd), wd)
        sc1 == sortColFor(sc, custData.header)
        shown == SelectSeq(custData.header,
                           LAMBDA name : ~Skipped(name, data.ns, metrics))
        sorted == Sort(custData.rows, IndexOf(custData.header, sc1.name),
                       sc1.name = "AGE", sc1.asc)
    IN  [sortCol |-> sc1,
         grid |-> [header |-> [k \in DOMAIN shown |-> headerCell(shown[k], sc1)],
                   rows |-> [i \in DOMAIN sorted |->
                               buildRow(sorted[i],
                                        data.rows[FindIndex(data.rows, sorted[i].id)],
                                        data.header, custData.header,
                                        data.ns, metrics, mk)]]]

NoCmd == [op |-> "", name |-> "", asc |-> TRUE]

\* filterToast indexes a row that has no field at the VALID column
toastPanics(data) ==
    /\ IndexOf(data.header, "VALID") # -1
    /\ \E i \in DOMAIN data.rows :
          Len(data.rows[i].fields) <= IndexOf(data.header, "VALID")

\* Table.filtered panics: in filterToast, or in fuzzyFilter on a row that
\* has no field at the name column
filteredPanics(buff, toasted, data) ==
    \/ toasted /\ toastPanics(data)
    \/ /\ ~CmdBuffEmpty(buff)
       /\ ~IsLabelSelector(buff.buff)
       /\ IsFuzzySelector(buff.buff)
       /\ LET f == IF toasted THEN filterToast(data) ELSE data
          IN  \E i \in DOMAIN f.rows :
                  Len(f.rows[i].fields) <= NameColIndex(data.ns)

\* doUpdate(filtered(data)) and UpdateTitle(), with the buffer, the flags
\* and the sort column as the handler has set them
Render(buff, toasted, data, wd, sc) ==
    IF filteredPanics(buff, toasted, data)
    THEN /\ crashed' = TRUE
         /\ typed' = buff.buff
         /\ cmdBuff' = buff
         /\ sortCol' = sc
         /\ UNCHANGED <<view, title, grid>>
    ELSE /\ typed' = buff.buff
         /\ \E f \in {filtered(buff, toasted, data)} :
               /\ cmdBuff' = f.buff
               /\ view' = f.data
         /\ \E d \in {doUpdate(view', cols, wd, sc, hasMetrics, marks')} :
               /\ sortCol' = d.sortCol
               /\ grid' = d.grid
         /\ title' = styleTitle(grid'.rows, cmdBuff')
         /\ UNCHANGED crashed

\* Table.Update(data), called with each snapshot of the model
Update(data) ==
    /\ ~crashed
    /\ UNCHANGED marks
    /\ snap' = data
    /\ Render(cmdBuff, toast, data, wide, sortCol)
    /\ cmd' = NoCmd
    /\ UNCHANGED <<toast, wide, hasMetrics, cols>>
    /\ UNCHANGED <<listener, tunnelVars>>

\* Table.Refresh: Update with the model's snapshot, unless it has no header
Refresh(toasted, wd, sc) ==
    IF snap.header = <<>>
    THEN /\ sortCol' = sc
         /\ UNCHANGED <<cmdBuff, snap, view, title, typed, grid, crashed>>
    ELSE /\ Render(cmdBuff, toasted, snap, wd, sc)
         /\ UNCHANGED snap

ToggleToast ==
    /\ ~crashed
    /\ UNCHANGED marks
    /\ toast' = ~toast
    /\ Refresh(~toast, wide, sortCol)
    /\ cmd' = NoCmd
    /\ UNCHANGED <<wide, hasMetrics, cols>>
    /\ UNCHANGED <<listener, tunnelVars>>

ResetToast ==
    /\ ~crashed
    /\ UNCHANGED marks
    /\ toast' = FALSE
    /\ Refresh(FALSE, wide, sortCol)
    /\ cmd' = NoCmd
    /\ UNCHANGED <<wide, hasMetrics, cols>>
    /\ UNCHANGED <<listener, tunnelVars>>

ToggleWide ==
    /\ ~crashed
    /\ UNCHANGED marks
    /\ wide' = ~wide
    /\ Refresh(toast, ~wide, sortCol)
    /\ cmd' = NoCmd
    /\ UNCHANGED <<toast, hasMetrics, cols>>
    /\ UNCHANGED <<listener, tunnelVars>>

\* Table.SetSortCol(name, asc)
SetSortCol(name, asc) ==
    /\ ~crashed
    /\ sortCol' = [name |-> name, asc |-> asc]
    /\ cmd' = [op |-> "SetSortCol", name |-> name, asc |-> asc]
    /\ UNCHANGED <<cmdBuff, toast, snap, view, title, typed,
                   wide, hasMetrics, cols, grid, crashed, marks>>
    /\ UNCHANGED <<listener, tunnelVars>>

\* SortColCmd that always takes the direction it is given
SortColCmdNoInvert(name, asc) ==
    /\ ~crashed
    /\ UNCHANGED marks
    /\ Refresh(toast, wide, [name |-> name, asc |-> asc])
    /\ cmd' = [op |-> "SortColCmd", name |-> name, asc |-> asc]
    /\ UNCHANGED <<toast, wide, hasMetrics, cols>>
    /\ UNCHANGED <<listener, tunnelVars>>

\* the key handler that Table.SortColCmd(name, asc) returns
SortColCmd(name, asc) ==
    /\ ~crashed
    /\ UNCHANGED marks
    /\ Refresh(toast, wide,
               [name |-> name,
                asc |-> IF sortCol.name # name THEN asc ELSE ~sortCol.asc])
    /\ cmd' = [op |-> "SortColCmd", name |-> name, asc |-> asc]
    /\ UNCHANGED <<toast, wide, hasMetrics, cols>>
    /\ UNCHANGED <<listener, tunnelVars>>

SortInvertCmd ==
    /\ ~crashed
    /\ UNCHANGED marks
    /\ Refresh(toast, wide, [sortCol EXCEPT !.asc = ~sortCol.asc])
    /\ cmd' = NoCmd
    /\ UNCHANGED <<toast, wide, hasMetrics, cols>>
    /\ UNCHANGED <<listener, tunnelVars>>

\* SelectTable.ToggleMark on the selected row, and the refresh of the mark
\* key handler
ToggleMark(id) ==
    /\ ~crashed
    /\ \E r \in DOMAIN grid.rows : grid.rows[r].ref = id
    /\ marks' = IF id \in marks THEN marks \ {id} ELSE marks \cup {id}
    /\ Refresh(toast, wide, sortCol)
    /\ cmd' = NoCmd
    /\ UNCHANGED <<toast, wide, hasMetrics, cols>>
    /\ UNCHANGED <<listener, tunnelVars>>

\* Table.ClearMarks
ClearMarks ==
    /\ ~crashed
    /\ marks' = {}
    /\ Refresh(toast, wide, sortCol)
    /\ cmd' = NoCmd
    /\ UNCHANGED <<toast, wide, hasMetrics, cols>>
    /\ UNCHANGED <<listener, tunnelVars>>

\* Table.GetSelectedRow with grid row r selected (row 0 is the header): the
\* row of the model's snapshot at index r-1, a panic outside its rows
OutOfRange == [id |-> "", fields |-> <<>>, panic |-> TRUE]
GetSelectedRow(r) ==
    IF r \in DOMAIN snap.rows
    THEN [id |-> snap.rows[r].id, fields |-> snap.rows[r].fields, panic |-> FALSE]
    ELSE OutOfRange

\* the "/" key: the filter buffer takes the keys
activateCmd ==
    /\ ~crashed
    /\ ~cmdBuff.active
    /\ cmdBuff' = CmdBuffSetActive(cmdBuff, TRUE)
    /\ cmd' = NoCmd
    /\ UNCHANGED <<toast, snap, view, title, typed,
                   wide, sortCol, hasMetrics, cols, grid, crashed, marks>>
    /\ UNCHANGED <<listener, tunnelVars>>

\* Table.FilterInput(r), for a key typed while the buffer is active
FilterInput(r) ==
    /\ ~crashed
    /\ UNCHANGED marks
    /\ cmdBuff.active
    /\ Len(cmdBuff.buff) < MaxBuff
    /\ Render(CmdBuffAdd(cmdBuff, r), toast, snap, wide, sortCol)
    /\ cmd' = NoCmd
    /\ UNCHANGED <<toast, snap, wide, hasMetrics, cols>>
    /\ UNCHANGED <<listener, tunnelVars>>

\* the operations of a command buffer that has the listener, as the
\* CmdBuff tests run them
BuffUnchanged ==
    UNCHANGED <<toast, snap, view, title, typed, wide, sortCol, hasMetrics,
                cols, grid, crashed, marks, tunnelVars>>

BuffAdd(r) ==
    /\ Len(cmdBuff.buff) < MaxBuff
    /\ cmdBuff' = CmdBuffAdd(cmdBuff, r)
    /\ listener' = BufferChanged(listener, CmdBuffString(cmdBuff'))
    /\ cmd' = BuffOp("Add", r)
    /\ BuffUnchanged

BuffDelete ==
    /\ cmdBuff' = CmdBuffDelete(cmdBuff)
    /\ listener' = IF CmdBuffEmpty(cmdBuff) THEN listener
                   ELSE BufferChanged(listener, CmdBuffString(cmdBuff'))
    /\ cmd' = BuffOp("Delete", "")
    /\ BuffUnchanged

BuffClear ==
    /\ cmdBuff' = CmdBuffClear(cmdBuff)
    /\ listener' = BufferChanged(listener, CmdBuffString(cmdBuff'))
    /\ cmd' = BuffOp("Clear", "")
    /\ BuffUnchanged

BuffReset ==
    /\ Notified(listener) < MaxNotify
    /\ cmdBuff' = CmdBuffReset(cmdBuff)
    /\ listener' = BufferActive(BufferChanged(listener, CmdBuffString(cmdBuff')),
                                FALSE)
    /\ cmd' = BuffOp("Reset", "")
    /\ BuffUnchanged

BuffSetActive(on) ==
    /\ Notified(listener) < MaxNotify
    /\ cmdBuff' = CmdBuffSetActive(cmdBuff, on)
    /\ listener' = BufferActive(listener, on)
    /\ cmd' = BuffOp(IF on THEN "SetActive" ELSE "SetInactive", "")
    /\ BuffUnchanged

----------------------------------------------------------------------------

EmptyData == [header |-> <<>>, rows |-> <<>>, ns |-> ""]

\* the keys typed into the filter
QueryChars == {"a", "b", "(", ")", "-", "f", "l"}

\* field values
Alpha == <<"a", "l", "p", "h", "a">>
Beta == <<"B", "e", "t", "a">>
Gamma == <<"g", "a", "m", "m", "a">>
Fab == <<"f", "a", "b">>
Bad == <<"b", "a", "d">>

Row(id, fields) == [id |-> id, fields |-> fields]

\* snapshots of the model: pods of one namespace, pods of all namespaces,
\* and a cluster-scoped resource without a VALID column
Snapshots ==
    { [header |-> <<"NAMESPACE", "NAME", "VALID">>, ns |-> "fab",
       rows |-> << Row("fab/alpha", <<Fab, Alpha, <<>>>>),
                   Row("fab/beta", <<Fab, Beta, Bad>>),
                   Row("fab/gamma", <<Fab, Gamma, <<>>>>) >>],
      [header |-> <<"NAMESPACE", "NAME", "VALID">>, ns |-> AllNamespaces,
       rows |-> << Row("fab/alpha", <<Fab, Alpha, Bad>>),
                   Row("bad/beta", <<Bad, Beta, <<>>>>) >>],
      [header |-> <<"NAME", "AGE">>, ns |-> ClusterScope,
       rows |-> << Row("alpha", <<Alpha, <<"b">>>>),
                   Row("beta", <<Beta, <<"a">>>>),
                   Row("gamma", <<Gamma, <<"b">>>>) >>] }

\* the queries the filter is applied to: every text of up to MaxQuery keys,
\* the query "-f a", and the query "A b" that runs over two fields
Queries ==
    UNION { [1..n -> QueryChars] : n \in 0..MaxQuery }
        \cup { <<"-", "f", " ", "a">>, <<"A", " ", "b">> }

\* snapshots for the render pass: pods with a metrics-only column, a
\* wide-only column and an age column, and a snapshot whose first row lacks
\* a field and whose second row has one too many
RenderSnapshots ==
    Snapshots \cup
    { [header |-> <<"NAMESPACE", "NAME", "CPU", "VALID", "AGE">>, ns |-> "fab",
       rows |-> << Row("fab/alpha", <<Fab, Alpha, <<"5">>, <<>>, <<"2", "h">>>>),
                   Row("fab/beta", <<Fab, Beta, <<"2">>, Bad, <<"5", "m">>>>) >>],
      [header |-> <<"NAME", "VALID">>, ns |-> ClusterScope,
       rows |-> << Row("gamma", <<Gamma>>),
                   Row("beta", <<Beta, Bad, <<"z">>>>) >>] }

\* the columns a view setting lists, <<>> for no setting
ColumnSettings == { <<>>, <<"CPU", "NAME", "AGE">> }

\* the columns the sort commands are bound to
SortNames == {"NAMESPACE", "NAME", "VALID", "AGE"}

\* the queries held while the table is drawn
RenderQueries == { <<>>, <<"a">>, <<"-", "f", "a">>, <<"-", "l", "a">> }

\* the state before the first filter step: no query was given to it yet
Unfiltered == <<"">>

\* NewTable: sorted ascending on no column yet, nothing drawn
TableFresh ==
    /\ toast = FALSE
    /\ snap = EmptyData
    /\ view = EmptyData
    /\ title = [count |-> 0, query |-> <<>>]
    /\ wide = FALSE
    /\ sortCol = [name |-> "", asc |-> TRUE]
    /\ grid = NoGrid
    /\ crashed = FALSE
    /\ cmd = NoCmd
    /\ marks = {}
    /\ listener = NoListener

TableInit ==
    /\ cmdBuff = NoBuff
    /\ typed = <<>>
    /\ hasMetrics = FALSE
    /\ cols = <<>>
    /\ TableFresh

\* no dialog, no tunnel, nothing queued, no port bound
TunnelIdle ==
    /\ dialog = NoDialog
    /\ registry = [id \in Idents |-> 0]
    /\ tun = [t \in Tunnels |-> NoTunnel]
    /\ pc = [t \in Tunnels |-> "none"]
    /\ active = [t \in Tunnels |-> FALSE]
    /\ uiQueue = <<>>
    /\ bound = {}
    /\ nTun = 0
    /\ step = NoStep
    /\ probeFailed = NoIdent
    /\ evlog = [t \in Tunnels |-> <<>>]

Init ==
    /\ pods \in [Paths -> PodSpecs]
    /\ TunnelIdle
    /\ TableInit

Next ==
    \/ \E sel \in Paths \cup {""}, podOk \in BOOLEAN, fetchOk \in BOOLEAN :
           portFwdCmd(sel, podOk, fetchOk)
    \/ cancelDialog
    \/ dialogOk
    \/ \E t \in Tunnels : rfAddForwarder(t)
    \/ \E t \in Tunnels : rfQueueActivated(t)
    \/ \E t \in Tunnels : rfSetActive(t)
    \/ \E t \in Tunnels : rfForwardFails(t)
    \/ \E t \in Tunnels : rfForwardEnds(t)
    \/ uiRunCallback
    \/ \E port \in LocalPorts : hostListen(port)
    \/ \E port \in LocalPorts : hostClose(port)

Spec == Init /\ [][Next]_vars

NextTable ==
    \/ \E data \in Snapshots : Update(data)
    \/ ToggleToast
    \/ ResetToast
    \/ activateCmd
    \/ \E r \in QueryChars : FilterInput(r)

SpecTable == Init /\ [][NextTable]_vars

\* The filter applied to one snapshot under one query and one toast flag
InitFilter ==
    /\ pods \in [Paths -> {CHOOSE w \in PodSpecs : TRUE}]
    /\ TunnelIdle
    /\ cmdBuff \in { [buff |-> q, active |-> TRUE] : q \in Queries }
    /\ toast \in BOOLEAN
    /\ snap \in Snapshots
    /\ view = EmptyData
    /\ title = [count |-> 0, query |-> <<>>]
    /\ typed = Unfiltered
    /\ wide = FALSE
    /\ sortCol = [name |-> "", asc |-> TRUE]
    /\ hasMetrics = FALSE
    /\ cols = <<>>
    /\ grid = NoGrid
    /\ crashed = FALSE
    /\ cmd = NoCmd
    /\ marks = {}
    /\ listener = NoListener

NextFilter == Update(snap)

SpecFilter == InitFilter /\ [][NextFilter]_vars

\* The table drawn under its flags: a query was typed before the first
\* snapshot came, the metrics flag and the view setting are as configured
InitRender ==
    /\ pods \in [Paths -> {CHOOSE w \in PodSpecs : TRUE}]
    /\ TunnelIdle
    /\ cmdBuff \in { [buff |-> q, active |-> FALSE] : q \in RenderQueries }
    /\ typed = cmdBuff.buff
    /\ hasMetrics \in BOOLEAN
    /\ cols \in ColumnSettings
    /\ TableFresh

NextRender ==
    \/ \E data \in RenderSnapshots : Update(data)
    \/ ToggleToast
    \/ ResetToast
    \/ ToggleWide
    \/ \E name \in SortNames, asc \in BOOLEAN : SetSortCol(name, asc)
    \/ \E name \in SortNames, asc \in BOOLEAN : SortColCmd(name, asc)
    \/ SortInvertCmd

SpecRender == InitRender /\ [][NextRender]_vars

\* the runes the CmdBuff tests add
BuffRunes == {"a", "b", "c"}

\* NewCmdBuff with one listener added
NextBuff ==
    \/ \E r \in BuffRunes : BuffAdd(r)
    \/ BuffDelete
    \/ BuffClear
    \/ BuffReset
    \/ \E on \in BOOLEAN : BuffSetActive(on)

SpecBuff == Init /\ [][NextBuff]_vars

\* the row IDs of the snapshots
MarkIDs ==
    UNION { { data.rows[i].id : i \in DOMAIN data.rows } : data \in Snapshots }

\* The table drawn while the operator marks rows
InitMarks ==
    /\ pods \in [Paths -> {CHOOSE w \in PodSpecs : TRUE}]
    /\ TunnelIdle
    /\ cmdBuff \in { [buff |-> q, active |-> FALSE] : q \in {<<>>, <<"a">>} }
    /\ typed = cmdBuff.buff
    /\ hasMetrics = FALSE
    /\ cols = <<>>
    /\ TableFresh

NextMarks ==
    \/ \E data \in Snapshots : Update(data)
    \/ \E id \in MarkIDs : ToggleMark(id)
    \/ ClearMarks
    \/ ToggleToast
    \/ ToggleWide
    \/ SortInvertCmd

SpecMarks == InitMarks /\ [][NextMarks]_vars

----------------------------------------------------------------------------
(* Properties of the tunnel lifecycle *)

Started(t) == pc[t] # "none"
Finished(t) == pc[t] \in {"failed", "returned"}
\* the goroutine of t was spawned and has not returned
Running(t) == Started(t) /\ ~Finished(t)
Queued(t) == \E i \in DOMAIN uiQueue : uiQueue[i].t = t
TunnelsOf(id) == { t \in Tunnels : Started(t) /\ FQN(t) = id }

\* a step in which startFwdCB ran; step' holds its inputs and its outcome
StartStep == step'.op = "startFwdCB"
StartIdent == PortForwardID(step'.path, step'.co)
NothingStarted ==
    /\ step'.t = 0
    /\ registry' = registry
    /\ tun' = tun
    /\ pc' = pc
    /\ nTun' = nTun
    /\ active' = active
    /\ uiQueue' = uiQueue

\* C1: at no time are two tunnels of one identity both started and not yet
\* finished.
C1_OneRunningTunnelPerIdentity ==
    \A t1, t2 \in Tunnels :
        (t1 # t2 /\ Running(t1) /\ Running(t2)) => FQN(t1) # FQN(t2)

\* C2: once the forwarding call of a tunnel has returned, with or without an
\* error, and the UI queue has run its pending callbacks, the registry holds
\* no entry for the tunnel's identity and the tunnel's active flag is false.
C2_ReturnClearsRegistry ==
    \A t \in Tunnels :
        (Finished(t) /\ uiQueue = <<>>) => (~ForwarderFor(FQN(t)) /\ ~active[t])

\* C3: a start request for an identity that has a registry entry, with a
\* free local port, is rejected as "already active": the registry is
\* unchanged, no forwarder is created and no goroutine is spawned.
C3_DuplicateRejected ==
    [][(StartStep /\ tryListenPort(step'.port) /\ ForwarderFor(StartIdent))
          => (step'.flash = "already active" /\ NothingStarted)]_vars

C3_Witness ==
    /\ step.op = "startFwdCB"
    /\ step.flash = "already active"
    /\ ForwarderFor(PortForwardID(step.path, step.co))
    /\ tryListenPort(step.port)

\* C4: a start request whose local port probe fails ends with the probe's
\* error, whether or not the identity has a registry entry: the registry is
\* unchanged and no goroutine is spawned.
C4_ProbeFailureAborts ==
    [][(StartStep /\ ~tryListenPort(step'.port))
          => (step'.flash = "port unavailable" /\ NothingStarted)]_vars

C4_Witness ==
    /\ step.op = "startFwdCB"
    /\ step.flash = "port unavailable"
    /\ ForwarderFor(PortForwardID(step.path, step.co))
    /\ ~tryListenPort(step.port)

\* C5: in the notifications of one tunnel, "activated" comes before the
\* failure and before the stop.
C5_ActivatedFirst ==
    \A t \in Tunnels : \A i \in DOMAIN evlog[t] :
        evlog[t][i].op \in {"failed", "delete"}
            => \E j \in 1..(i - 1) : evlog[t][j].op = "activated"

\* C6: every registry mutation and every notification a tunnel's goroutine
\* causes is performed by a callback of the UI queue.
C6_AllOnUiQueue ==
    \A t \in Tunnels : \A i \in DOMAIN evlog[t] : evlog[t][i].ctx = "ui"

\* C7: once the forwarding call of a tunnel has failed, and no other tunnel
\* of the identity is running or has a callback pending, a start request for
\* the identity with a free local port is not rejected as "already active".
C7_RestartAfterFailure ==
    [][(/\ StartStep
        /\ tryListenPort(step'.port)
        /\ \E t \in TunnelsOf(StartIdent) : pc[t] = "failed"
        /\ \A t \in TunnelsOf(StartIdent) : Finished(t) /\ ~Queued(t))
          => step'.flash # "already active"]_vars

\* C8, as stated: when the latest start request of an identity failed on
\* the probe, the next start request of the identity, made with the port
\* free and a forwarder that can be created, is accepted.
C8_Original ==
    [][(StartStep /\ probeFailed = StartIdent /\ tryListenPort(step'.port)
            /\ step'.ok)
          => step'.t # 0]_vars

\* C8, amended: the same, when the registry holds no entry for the identity
\* at the second request; and the goroutine of an accepted request registers
\* its tunnel under its identity, the only entry of that identity, and
\* leaves the other entries alone.
C8_RetryAfterProbeFailure ==
    [][/\ (StartStep /\ probeFailed = StartIdent /\ tryListenPort(step'.port)
               /\ step'.ok /\ ~ForwarderFor(StartIdent))
          => (step'.t = nTun + 1 /\ pc'[nTun + 1] = "add"
                /\ PortForwardID(tun'[nTun + 1].path, tun'[nTun + 1].co) = StartIdent)
       /\ \A t \in Tunnels :
            (pc[t] = "add" /\ pc'[t] = "notify")
              => /\ registry'[FQN(t)] = t
                 /\ Cardinality({ id \in Idents : id = FQN(t) /\ registry'[id] # 0 }) = 1
                 /\ \A id \in Idents \ {FQN(t)} : registry'[id] = registry[id]]_vars

\* a request that follows a failed probe of its identity has been accepted
C8_Witness ==
    /\ step.op = "startFwdCB"
    /\ step.retry
    /\ step.t # 0
    /\ pc[step.t] = "add"
    /\ FQN(step.t) = PortForwardID(step.path, step.co)

\* the TCP ports a pod declares, as the dialog names them
DeclaredTcp(mm) ==
    { [co |-> co, name |-> mm[co][i].name, port |-> mm[co][i].port] :
        <<co, i>> \in { ci \in Containers \X (1..2) :
                          ci[2] \in DOMAIN mm[ci[1]] /\ mm[ci[1]][ci[2]].proto = TCP } }

\* C9: the dialog offers exactly the TCP ports the pod declares; for a pod
\* that declares none the command reports "no tcp ports found" and shows no
\* dialog, and a start request is only made from a dialog, for a container
\* that declares a TCP port.
C9_DialogOffersTcpPorts ==
    /\ [](dialog.shown =>
            (dialog.ports = DeclaredTcp(pods[dialog.path]) /\ dialog.ports # {}))
    /\ [][/\ (step'.op = "portFwdCmd" /\ step'.path # "" /\ step'.ok
                 /\ DeclaredTcp(pods[step'.path]) = {})
             => (step'.flash = "no tcp ports found" /\ ~dialog'.shown)
          /\ StartStep
             => (dialog.shown
                   /\ \E e \in DeclaredTcp(pods[step'.path]) : e.co = step'.co)]_vars

C9_Witness ==
    /\ step.op = "portFwdCmd"
    /\ step.ok
    /\ step.flash = "no tcp ports found"
    /\ ~dialog.shown
    /\ DeclaredTcp(pods[step.path]) = {}

----------------------------------------------------------------------------
(* The filter step on an expression that does not compile *)

\* the IDs of the rows handed to doUpdate
ViewIDs == RowIDs(view.rows)

\* the snapshot's rows with only the toast filter applied when enabled
ToastOnly ==
    IF toast /\ \E i \in DOMAIN snap.header : snap.header[i] = "VALID"
    THEN SelectSeq(snap.rows,
            LAMBDA r : r.fields[CHOOSE i \in DOMAIN snap.header :
                                    snap.header[i] = "VALID"] # <<>>)
    ELSE snap.rows

BadExpression ==
    /\ typed # <<>>
    /\ ~HasPrefix(typed, <<"-", "l">>)
    /\ ~HasPrefix(typed, <<"-", "f">>)
    /\ ~rxCompile(typed)

\* C10: when the filter step is given a query that is not empty, not a -l
\* or -f query, and does not compile as a regular expression, the view it
\* yields is the snapshot with only the toast filter applied when enabled,
\* the query buffer is empty afterwards, and the title shows no query.
C10_BadExpressionClearsQuery ==
    BadExpression =>
        /\ ViewIDs = [i \in DOMAIN ToastOnly |-> ToastOnly[i].id]
        /\ cmdBuff.buff = <<>>
        /\ title = [count |-> Len(ToastOnly), query |-> <<>>]

\* a bad expression typed after valid keys, over a snapshot the toast
\* filter cuts down
C10_Witness ==
    /\ BadExpression
    /\ Len(typed) > 1
    /\ toast
    /\ ViewIDs # <<>>
    /\ Len(ViewIDs) < Len(snap.rows)

----------------------------------------------------------------------------
(* The fuzzy query *)

\* p is a subsequence of str, whatever the case
RECURSIVE IsSubsequence(_, _)
IsSubsequence(p, str) ==
    IF p = <<>> THEN TRUE
    ELSE IF str = <<>> THEN FALSE
    ELSE IF Lower(Head(p)) = Lower(Head(str))
    THEN IsSubsequence(Tail(p), Tail(str))
    ELSE IsSubsequence(p, Tail(str))

\* the position of the resource name column in the snapshot's header
NameColumn == CHOOSE i \in DOMAIN snap.header : snap.header[i] = "NAME"

ViewSet == { ViewIDs[i] : i \in DOMAIN ViewIDs }

\* the last filter step was given a -f query with a pattern
FuzzyTyped == HasPrefix(typed, <<"-", "f">>) /\ Len(typed) > 2

\* C11: for a -f query the rows kept are exactly the rows whose value in
\* the NAME column subsequence-matches the rest of the query, whatever the
\* scope of the view (the rows being those the toast filter left).
C11_FuzzyMatchesNameColumn ==
    FuzzyTyped =>
        ViewSet = { ToastOnly[i].id : i \in
                      { k \in DOMAIN ToastOnly :
                          IsSubsequence(From(typed, 2),
                                        ToastOnly[k].fields[NameColumn]) } }

\* a cluster-scoped snapshot whose rows are named alpha, beta and gamma,
\* none of them cut by the toast filter
AlphaBetaGamma ==
    /\ IsClusterScoped(snap.ns)
    /\ Len(snap.rows) = 3
    /\ LowerStr(snap.rows[1].fields[NameColumn]) = <<"a", "l", "p", "h", "a">>
    /\ LowerStr(snap.rows[2].fields[NameColumn]) = <<"b", "e", "t", "a">>
    /\ LowerStr(snap.rows[3].fields[NameColumn]) = <<"g", "a", "m", "m", "a">>
    /\ ToastOnly = snap.rows

\* C12 as stated: the query "-f a" (or "-fa", the pattern a without the
\* blank) on the rows alpha, beta, gamma returns only the row alpha.
C12_Original ==
    (AlphaBetaGamma /\ typed \in { <<"-", "f", " ", "a">>, <<"-", "f", "a">> })
        => ViewIDs = <<snap.rows[1].id>>

\* C12: on the rows alpha, beta, gamma the query "-fa" returns the three
\* rows, every name holding an a, and the query "-f a" returns no row, its
\* pattern " a" starting with a blank that no name holds.
C12_PatternAfterPrefix ==
    AlphaBetaGamma =>
        /\ typed = <<"-", "f", "a">> =>
               (Len(ViewIDs) = 3 /\ ViewSet = { snap.rows[i].id : i \in 1..3 })
        /\ typed = <<"-", "f", " ", "a">> => ViewIDs = <<>>

C12_Witness ==
    /\ AlphaBetaGamma
    /\ typed = <<"-", "f", " ", "a">>
    /\ cmdBuff.buff = typed
    /\ title.count = 0

----------------------------------------------------------------------------
(* What the regex and the fuzzy filter return *)

ToastIDs == [i \in DOMAIN ToastOnly |-> ToastOnly[i].id]

\* the last filter step was given a query that compiles
RegexTyped ==
    /\ typed # Unfiltered
    /\ typed # <<>>
    /\ ~HasPrefix(typed, <<"-", "l">>)
    /\ ~HasPrefix(typed, <<"-", "f">>)
    /\ Balanced(typed, 0)

\* the row's fields joined by blanks hold the query's text, whatever the case
FieldsMatch(q, r) ==
    LET joined == LowerStr(Join(r.fields))
        text == LowerStr(SelectSeq(q, LAMBDA c : c \notin {"(", ")"}))
    IN  \E i \in 0..(Len(joined) - Len(text)) :
            \A k \in 1..Len(text) : joined[i + k] = text[k]

\* C13: the regex filter and the fuzzy filter return rows of their input,
\* each at most once, with the header and the scope unchanged; for a query
\* that compiles the result is exactly the rows whose blank-joined fields
\* match case-insensitively, in their original order.
C13_FilterKeepsSubset ==
    typed # Unfiltered =>
        /\ view.header = snap.header
        /\ view.ns = snap.ns
        /\ ViewSet \subseteq { ToastIDs[i] : i \in DOMAIN ToastIDs }
        /\ \A i, j \in DOMAIN ViewIDs : ViewIDs[i] = ViewIDs[j] => i = j
        /\ RegexTyped =>
               ViewIDs = SelectSeq(ToastIDs,
                   LAMBDA id : \E i \in DOMAIN ToastOnly :
                       ToastOnly[i].id = id /\ FieldsMatch(typed, ToastOnly[i]))

\* a query that compiles and matches some of the rows but not all, one of
\* them across two fields
C13_Witness ==
    /\ RegexTyped
    /\ ViewIDs # <<>>
    /\ Len(ViewIDs) < Len(ToastOnly)
    /\ \E i \in DOMAIN ToastOnly :
          /\ ToastOnly[i].id \in ViewSet
          /\ \A k \in DOMAIN ToastOnly[i].fields :
                ~FieldsMatch(typed, [fields |-> <<ToastOnly[i].fields[k]>>])

----------------------------------------------------------------------------
(* Filtering what was filtered *)

\* the view, as the snapshot the filter is applied to again
ViewData == view

\* the filter, under the same query and toast flag, applied to the view
Refiltered ==
    RowIDs(filtered([buff |-> typed, active |-> TRUE], toast, ViewData).data.rows)

\* two rows of the view have the same fuzzy score in the matched column
TiedScores ==
    \E i, j \in DOMAIN ViewData.rows :
        /\ i # j
        /\ fuzzyMatch(From(typed, 2),
                      ViewData.rows[i].fields[NameColIndex(snap.ns) + 1]).score
           = fuzzyMatch(From(typed, 2),
                        ViewData.rows[j].fields[NameColIndex(snap.ns) + 1]).score

----------------------------------------------------------------------------
(* The toast filter and the query *)

ToastData == KeepRows(snap, ToastOnly)

\* C15: with the toast flag on, an empty or -l query returns exactly the
\* rows whose VALID value is not empty (all rows when the header has no
\* VALID column), and a -f or regex query is applied to those rows.
C15_ToastComposes ==
    (typed # Unfiltered /\ toast) =>
        /\ (typed = <<>> \/ HasPrefix(typed, <<"-", "l">>)) =>
               ViewIDs = ToastIDs
        /\ HasPrefix(typed, <<"-", "f">>) =>
               ViewIDs = RowIDs(fuzzyFilter(From(typed, 2),
                                      NameColIndex(snap.ns), ToastData).rows)
        /\ (typed # <<>> /\ ~HasPrefix(typed, <<"-", "l">>)
                /\ ~HasPrefix(typed, <<"-", "f">>)) =>
               ViewIDs = RowIDs(rxFilter(typed, ToastData).data.rows)

\* a regex query that matches rows the toast filter has cut
C15_Witness ==
    /\ toast
    /\ RegexTyped
    /\ ViewIDs # <<>>
    /\ \E i \in DOMAIN snap.rows :
          /\ FieldsMatch(typed, snap.rows[i])
          /\ snap.rows[i].id \notin ViewSet

----------------------------------------------------------------------------
(* The sort commands and the render pass *)

\* the customized header: the listed columns the header has when the view
\* setting lists some, else the columns the wide flag lets through
CustomHeaderOf(h, wd) ==
    IF cols # <<>>
    THEN SelectSeq(cols, LAMBDA name : \E i \in DOMAIN h : h[i] = name)
    ELSE SelectSeq(h, LAMBDA name : wd \/ name \notin {"VALID"})

InHeader(name, h) == \E i \in DOMAIN h : h[i] = name

\* the direction the sort command of cmd' leaves
CommandDirection ==
    IF sortCol.name = cmd'.name THEN ~sortCol.asc ELSE cmd'.asc

\* C16 as stated: the sort command of X with default direction d inverts
\* the direction and keeps X when the sort column is X, and sets the sort
\* column to X with direction d otherwise.
C16_Original ==
    [][cmd'.op = "SortColCmd" =>
          sortCol' = [name |-> cmd'.name, asc |-> CommandDirection]]_vars

\* C16: the sort command of X with default direction d inverts the
\* direction when the sort column is X and sets direction d otherwise; it
\* leaves X as the sort column when X is in the customized header or
\* nothing is drawn, and else the render that ends it puts the first
\* customized column in its place.
C16_SortCommand ==
    [][cmd'.op = "SortColCmd" =>
          /\ sortCol'.asc = CommandDirection
          /\ sortCol'.name =
                IF /\ snap.header # <<>>
                   /\ ~InHeader(cmd'.name, CustomHeaderOf(view'.header, wide'))
                   /\ CustomHeaderOf(view'.header, wide') # <<>>
                THEN CustomHeaderOf(view'.header, wide')[1]
                ELSE cmd'.name]_vars

\* the sort command of the current sort column has inverted the direction
C16_Witness ==
    /\ cmd.op = "SortColCmd"
    /\ sortCol.name = cmd.name
    /\ sortCol.asc # cmd.asc
    /\ \E k \in DOMAIN grid.header :
          /\ grid.header[k].name = cmd.name
          /\ grid.header[k].sort = (IF cmd.asc THEN "desc" ELSE "asc")

\* the sort column the step asks for: the command's column for a sort
\* command, the table's sort column otherwise
Requested == IF cmd'.op = "SortColCmd" THEN cmd'.name ELSE sortCol.name

\* the step has run a render pass to its end
Rendered ==
    /\ cmd'.op # "SetSortCol"
    /\ snap'.header # <<>>
    /\ ~crashed'
    /\ CustomHeaderOf(view'.header, wide') # <<>>

\* C17: after every render in which the requested sort column is empty or
\* absent from the customized header, the sort column is the first column
\* the grid displays.
C17_FallbackIsDisplayed ==
    [][(/\ Rendered
        /\ \/ Requested = ""
           \/ ~InHeader(Requested, CustomHeaderOf(view'.header, wide')))
       => /\ grid'.header # <<>>
          /\ sortCol'.name = grid'.header[1].name]_vars

\* the grid of the filter, customize and sort pipeline on the latest
\* snapshot under the current query, flags and sort column
PipelineGrid ==
    doUpdate(filtered(cmdBuff, toast, snap).data, cols, wide, sortCol,
             hasMetrics, marks).grid

\* C18: after each of ToggleWide, ToggleToast, ResetToast, SetSortCol and
\* the sort commands the visible grid is the pipeline's grid for the latest
\* snapshot under the new flag values.
C18_GridFollowsFlags ==
    (~crashed /\ snap.header # <<>>) => grid = PipelineGrid

\* the row of the latest snapshot that has the id
SnapRow(id) ==
    snap.rows[CHOOSE i \in DOMAIN snap.rows : snap.rows[i].id = id]

\* the field of a snapshot row at the named column of the snapshot's header
FieldAt(row, name) ==
    row.fields[CHOOSE c \in DOMAIN snap.header : snap.header[c] = name]

\* every row of the snapshot has one field per header column
WellFormed ==
    \A i \in DOMAIN snap.rows : Len(snap.rows[i].fields) = Len(snap.header)

\* C19: in every render pass a row with as many fields as the header has
\* columns gets as many cells as there are header cells, and its k-th cell
\* holds the row's field of the column the k-th header cell shows.
C19_CellsFollowHeader ==
    (~crashed /\ WellFormed) =>
        \A i \in DOMAIN grid.rows :
            /\ Len(grid.rows[i].cells) = Len(grid.header)
            /\ \A k \in DOMAIN grid.rows[i].cells :
                  /\ grid.rows[i].cells[k].col = grid.header[k].name
                  /\ grid.rows[i].cells[k].text =
                        FieldAt(SnapRow(grid.rows[i].ref), grid.header[k].name)

\* a render that hid columns of the customized header and drew at least
\* two columns of a well-formed snapshot
C19_Witness ==
    /\ ~crashed
    /\ WellFormed
    /\ grid.rows # <<>>
    /\ Len(grid.header) >= 2
    /\ Len(grid.header) < Len(CustomHeaderOf(view.header, wide))

\* C20: a snapshot in which a row has more or fewer fields than the header
\* has columns is rendered without failing, under every toast flag and
\* query mode.
C20_RaggedRowsRender == ~WellFormed => ~crashed

----------------------------------------------------------------------------
(* The mark set *)

\* the row of the latest snapshot has something in its VALID column
Unhealthy(id) ==
    \E c \in DOMAIN snap.header :
        /\ snap.header[c] = "VALID"
        /\ c <= Len(SnapRow(id).fields)
        /\ SnapRow(id).fields[c] # <<>>

\* C21: every cell of a row has the mark colour exactly when the row ID is
\* in the mark set and the colorer's result is not the error colour; on the
\* error colour the cell keeps it, marked or not, and an unmarked row keeps
\* the colorer's colour.
C21_MarkColour ==
    ~crashed =>
        \A r \in DOMAIN grid.rows : \A k \in DOMAIN grid.rows[r].cells :
            grid.rows[r].cells[k].color =
                IF Unhealthy(grid.rows[r].ref) THEN "err"
                ELSE IF grid.rows[r].ref \in marks THEN "mark"
                ELSE "std"

\* a marked row in error drawn next to a marked healthy row and an
\* unmarked one
C21_Witness ==
    /\ ~crashed
    /\ \E r \in DOMAIN grid.rows :
          /\ grid.rows[r].ref \in marks
          /\ grid.rows[r].cells # <<>>
          /\ \A k \in DOMAIN grid.rows[r].cells : grid.rows[r].cells[k].color = "err"
    /\ \E r \in DOMAIN grid.rows :
          /\ grid.rows[r].ref \in marks
          /\ grid.rows[r].cells # <<>>
          /\ \A k \in DOMAIN grid.rows[r].cells : grid.rows[r].cells[k].color = "mark"
    /\ \E r \in DOMAIN grid.rows :
          /\ grid.rows[r].ref \notin marks
          /\ grid.rows[r].cells # <<>>
          /\ \A k \in DOMAIN grid.rows[r].cells : grid.rows[r].cells[k].color = "std"

\* the row IDs of a snapshot
IDsOf(data) == { data.rows[i].id : i \in DOMAIN data.rows }

\* C22: an update keeps the marks of the row IDs its snapshot contains and
\* removes the marks of the row IDs its snapshot no longer contains.
C22_MarksFollowSnapshot ==
    [][snap' # snap => marks' = { id \in marks : id \in IDsOf(snap') }]_vars

----------------------------------------------------------------------------
(* The command buffer *)

\* C23: String() is the added runes, each Delete having removed the last
\* one (none when empty) and Clear and Reset having emptied it; Empty()
\* holds exactly when String() is empty; the listener's last text is
\* String(); only SetActive and Reset notify an activation, Reset exactly
\* one inactive.
C23_BufferOperations ==
    [][/\ cmd'.op = "Add" =>
             CmdBuffString(cmdBuff') = Append(CmdBuffString(cmdBuff), cmd'.name)
       /\ cmd'.op = "Delete" =>
             CmdBuffString(cmdBuff') =
                 [i \in 1..(Len(CmdBuffString(cmdBuff)) - 1) |->
                      CmdBuffString(cmdBuff)[i]]
       /\ cmd'.op \in {"Clear", "Reset"} => CmdBuffString(cmdBuff') = <<>>
       /\ cmd'.op \in {"SetActive", "SetInactive"} =>
             CmdBuffString(cmdBuff') = CmdBuffString(cmdBuff)
       /\ CmdBuffEmpty(cmdBuff') <=> (CmdBuffString(cmdBuff') = <<>>)
       /\ listener'.text = CmdBuffString(cmdBuff')
       /\ cmd'.op \in {"Add", "Delete", "Clear"} =>
             listener'.act = listener.act /\ listener'.inact = listener.inact
       /\ cmd'.op = "Reset" =>
             listener'.act = listener.act /\ listener'.inact = listener.inact + 1
       /\ cmd'.op = "SetActive" =>
             listener'.act = listener.act + 1 /\ listener'.inact = listener.inact
       /\ cmd'.op = "SetInactive" =>
             listener'.act = listener.act /\ listener'.inact = listener.inact + 1
      ]_vars

\* a Delete has left two of three added runes, after one activation
C23_Witness ==
    /\ cmd.op = "Delete"
    /\ Len(CmdBuffString(cmdBuff)) = 2
    /\ CmdBuffString(cmdBuff)[1] # CmdBuffString(cmdBuff)[2]
    /\ listener.text = CmdBuffString(cmdBuff)
    /\ listener.act = 1
    /\ listener.inact = 0

----------------------------------------------------------------------------
(* The tunnel registry and the queued callbacks *)

\* the step is the UI thread running the callback at the head of the queue
RunsHead(kind) ==
    /\ uiQueue # <<>>
    /\ uiQueue' = Tail(uiQueue)
    /\ Head(uiQueue).kind = kind

\* C24: whenever the UI thread runs a tunnel's "activated" callback, the
\* registry holds that tunnel under its identity and the tunnel's active
\* flag is set.
C24_ActivatedSeesActive ==
    [][RunsHead("activated") =>
          /\ registry[FQN(Head(uiQueue).t)] = Head(uiQueue).t
          /\ active[Head(uiQueue).t]]_vars

\* C26: each tunnel whose active flag is set is the tunnel the registry
\* holds under its identity.
C26_ActiveIsRegistered ==
    \A t \in Tunnels : active[t] => registry[FQN(t)] = t

----------------------------------------------------------------------------
(* The selected row *)

\* C25: when a data row of the grid is selected, GetSelectedRow returns the
\* snapshot row whose ID is the reference of the selected grid row's first
\* cell, and never indexes outside the snapshot's rows.
C25_SelectedRowIsReferenced ==
    ~crashed =>
        \A r \in DOMAIN grid.rows :
            grid.rows[r].ref # "" =>
                /\ ~GetSelectedRow(r).panic
                /\ GetSelectedRow(r).id = grid.rows[r].ref

====
